---- MODULE Spec2Model ----
(***************************************************************************)
(* XMLFlatten: the two flattening policies of the repository and the       *)
(* warehouse loader.                                                       *)
(*   Policy A  expand_node of app.py (path-prefixed columns) and of        *)
(*             version2.py (tag-only columns): cartesian expansion.        *)
(*   Policy B  XMLToSnowflakeETL of version3.py: one table per level-1     *)
(*             child of the data node, sequence fan-out.                   *)
(* A document is an ordered tree whose nodes are numbered in document      *)
(* (pre-)order; a row (a Python dict) is a function from column names to   *)
(* values; a list is a sequence.                                           *)
(***************************************************************************)
EXTENDS Integers, Sequences, FiniteSets, TLC

VARIABLES
  doc,           \* the parsed document
  prog,          \* the program run on it: app.py, version2.py or version3.py
  data_node,     \* XMLToSnowflakeETL.data_node
  pc,            \* the position of the run
  rows,          \* the rows parse_xml got from expand_node
  data_element,  \* flatten_xml's data_element (0: None)
  todo,          \* the level-1 children flatten_xml has still to process
  tables,        \* flatten_xml's tables
  calls,         \* the invocations of _extract_repetitive_data so far
  value,         \* the argument of _infer_snowflake_type
  col_type,      \* its result
  batches,       \* process_xml_file: the (table_name, records) items to load
  warehouse,     \* the tables of the warehouse: their columns and rows
  position,      \* the item of batches process_xml_file's loop is at
  initial,       \* the warehouse as process_xml_file found it
  last           \* the outcome of the last warehouse call of the run

flatVars == <<doc, data_node, rows, data_element, todo, tables, calls>>

inferVars == <<value, col_type>>

loadVars == <<batches, warehouse, position, initial, last>>

vars == <<prog, pc, flatVars, inferVars, loadVars>>

\* ------------------------------------------------------------------ bounds
\* a value is up to MaxPrefix characters, a run of one character, and at most
\* one more character
MaxPrefix == 2

\* a batch for the table item has up to MaxRecords records
MaxRecords == 2

\* every ordered tree of up to MaxNodes nodes is a document
MaxNodes == 5

\* so is every stem of one or two nodes with up to MaxFan leaves under it
MaxFan == 5

\* ------------------------------------------------------------- dict helpers
NoCall == [op |-> "", table |-> "", outcome |-> ""]

EmptyDict == <<>>

\* dict.update / d[k] = v : keys of u replace those of d
Update(d, u) ==
  [k \in (DOMAIN d) \cup (DOMAIN u) |-> IF k \in DOMAIN u THEN u[k] ELSE d[k]]

Put(d, k, v) == [x \in (DOMAIN d) \cup {k} |-> IF x = k THEN v ELSE d[x]]

\* the elements of a set of numbers, ascending
RECURSIVE SortedSeq(_)
SortedSeq(S) ==
  IF S = {} THEN <<>>
  ELSE LET m == CHOOSE x \in S : \A y \in S : x <= y
       IN  <<m>> \o SortedSeq(S \ {m})

RECURSIVE SumSeq(_)
SumSeq(ns) == IF ns = <<>> THEN 0 ELSE Head(ns) + SumSeq(Tail(ns))

RECURSIVE ProdSeq(_)
ProdSeq(ns) == IF ns = <<>> THEN 1 ELSE Head(ns) * ProdSeq(Tail(ns))

\* ---------------------------------------------------------------- node model
Nodes == 1..Len(doc.tag)

Tag(n) == doc.tag[n]

Attrib(n) == doc.attrib[n]

\* str.strip() on the texts a document can hold
Strip(s) ==
  CASE s = " " -> ""
    [] s = " y " -> "y"
    [] OTHER -> s

\* (element.text or "").strip()
Text(n) == Strip(doc.text[n])

\* list(element): the children in document order
Children(n) == SortedSeq({i \in Nodes : doc.parent[i] = n})

\* the attributes of a node in a fixed order (dict iteration order)
AttrNames(n) == DOMAIN Attrib(n)

\* grouping by tag, first-seen tag order, document order inside a tag
RECURSIVE GroupTags(_)
GroupTags(cs) ==
  IF cs = <<>> THEN <<>>
  ELSE LET rest == GroupTags(SubSeq(cs, 1, Len(cs) - 1))
           t == Tag(cs[Len(cs)])
       IN  IF \E j \in DOMAIN rest : rest[j] = t THEN rest ELSE Append(rest, t)

GroupNodes(cs, t) == SelectSeq(cs, LAMBDA c : Tag(c) = t)

\* the ordered groups of a node: a sequence of [tag, nodes]
Groups(n) ==
  LET cs == Children(n)
      ts == GroupTags(cs)
  IN  [j \in DOMAIN ts |-> [tag |-> ts[j], nodes |-> GroupNodes(cs, ts[j])]]

\* the concatenation of a sequence of sequences
RECURSIVE Flatten(_)
Flatten(ss) == IF ss = <<>> THEN <<>> ELSE Head(ss) \o Flatten(Tail(ss))

\* ------------------------------------------------------- Policy A (app.py)
\* prefix = f"{path}_{element.tag}" if path else element.tag
Prefix(path, n) == IF path # "" THEN path \o "_" \o Tag(n) ELSE Tag(n)

\* for k, v in element.attrib.items(): base[f"{prefix}_{k}"] = v
RECURSIVE PutAttrs(_, _, _, _)
PutAttrs(d, pre, n, ks) ==
  IF ks = {} THEN d
  ELSE LET k == CHOOSE x \in ks : TRUE
       IN  PutAttrs(Put(d, pre \o "_" \o k, Attrib(n)[k]), pre, n, ks \ {k})

\* a variant that chains the groups' rows instead of combining them
ProductChained(gs) == LET all == Flatten(gs) IN [i \in DOMAIN all |-> << all[i] >>]

\* itertools.product(*expanded_groups): the first group varies slowest
RECURSIVE Product(_)
Product(gs) ==
  IF gs = <<>> THEN << <<>> >>
  ELSE LET front == Product(SubSeq(gs, 1, Len(gs) - 1))
           back == gs[Len(gs)]
       IN  Flatten([i \in DOMAIN front |->
                      [j \in DOMAIN back |-> Append(front[i], back[j])]])

\* a variant in which the first row to carry a column keeps it
RECURSIVE MergeComboFirstWins(_, _)
MergeComboFirstWins(base, combo) ==
  IF combo = <<>> THEN base
  ELSE Update(MergeComboFirstWins(base, Tail(combo)), Head(combo))

\* merged = base.copy(); for row in combo: merged.update(row)
RECURSIVE MergeCombo(_, _)
MergeCombo(base, combo) ==
  IF combo = <<>> THEN base
  ELSE MergeCombo(Update(base, Head(combo)), Tail(combo))

RECURSIVE expand_node(_, _, _)
\* rows.extend(expand_node(n, base, prefix)) for the nodes of one group
ExpandGroup(nodes, base, prefix) ==
  Flatten([i \in DOMAIN nodes |-> expand_node(nodes[i], base, prefix)])

expand_node(element, context, path) ==
  LET prefix == Prefix(path, element)
      base == PutAttrs(context, prefix, element, AttrNames(element))
      text == Text(element)
      children == Children(element)
      groups == Groups(element)
      expanded_groups ==
        [j \in DOMAIN groups |-> ExpandGroup(groups[j].nodes, base, prefix)]
      combos == Product(expanded_groups)
  IN  IF text # "" /\ children = <<>> THEN << Put(base, prefix, text) >>
      ELSE IF children = <<>> THEN << base >>
      ELSE [c \in DOMAIN combos |-> MergeCombo(base, combos[c])]

\* --------------------------------------------------- Policy A (version2.py)
\* base[f"{element.tag}_@{k}"] = v
RECURSIVE PutAttrsV2(_, _, _)
PutAttrsV2(d, n, ks) ==
  IF ks = {} THEN d
  ELSE LET k == CHOOSE x \in ks : TRUE
       IN  PutAttrsV2(Put(d, Tag(n) \o "_@" \o k, Attrib(n)[k]), n, ks \ {k})

RECURSIVE expand_node_v2(_, _)
ExpandGroupV2(nodes, base) ==
  Flatten([i \in DOMAIN nodes |-> expand_node_v2(nodes[i], base)])

expand_node_v2(element, context) ==
  LET base == PutAttrsV2(context, element, AttrNames(element))
      text == Text(element)
      children == Children(element)
      groups == Groups(element)
      expanded_groups ==
        [j \in DOMAIN groups |-> ExpandGroupV2(groups[j].nodes, base)]
      combos == Product(expanded_groups)
  IN  IF text # "" /\ children = <<>> THEN << Put(base, Tag(element), text) >>
      ELSE IF children = <<>> THEN << base >>
      ELSE [c \in DOMAIN combos |-> MergeCombo(base, combos[c])]

\* ------------------------------------------------- Policy B (version3.py)
\* datetime.now().isoformat(): one reading of the clock
now == "2026-01-01T00:00:00"

\* the outcome of _flatten_element: None, or a dict
None == [isNone |-> TRUE, dict |-> EmptyDict]

Some(d) == [isNone |-> FALSE, dict |-> d]

\* a variant that tests "flattened is not None"
NotNone(r) == ~r.isNone

\* Python truthiness of "if flattened:": None and {} are both false
Truthy(r) == ~r.isNone /\ DOMAIN r.dict # {}

\* a variant that names a child's columns by the child's own tag alone
NewPrefixNone(prefix, element) == ""

\* new_prefix = f"{prefix}{element.tag}_" (line 136)
NewPrefix(prefix, element) == prefix \o Tag(element) \o "_"

RECURSIVE _flatten_element(_, _)
\* the loop of lines 134-142 over the (single-child) groups from index j on
RECURSIVE FlattenChildren(_, _, _, _)
FlattenChildren(result, groups, new_prefix, j) ==
  IF j > Len(groups) THEN Some(result)
  ELSE LET child_result == _flatten_element(groups[j].nodes[1], new_prefix)
       IN  IF child_result.isNone THEN None
           ELSE FlattenChildren(Update(result, child_result.dict),
                                groups, new_prefix, j + 1)

_flatten_element(element, prefix) ==
  LET own == prefix \o Tag(element)
      r1 == PutAttrs(EmptyDict, own, element, AttrNames(element))
      r2 == IF Text(element) # "" THEN Put(r1, own, Text(element)) ELSE r1
      groups == Groups(element)
  IN  IF \E j \in DOMAIN groups : Len(groups[j].nodes) > 1 THEN None
      ELSE FlattenChildren(r2, groups, NewPrefix(prefix, element), 1)

RECURSIVE _has_repetitive_descendants(_)
_has_repetitive_descendants(element) ==
  LET groups == Groups(element)
      children == Children(element)
  IN  \/ \E j \in DOMAIN groups : Len(groups[j].nodes) > 1
      \/ \E i \in DOMAIN children : _has_repetitive_descendants(children[i])

\* the result of a run of _extract_repetitive_data: the rows it appended to
\* collected_data, and its invocations (element, parent_data) in call order
NoRows == [rows |-> <<>>, calls |-> <<>>]

RECURSIVE Join(_)
Join(rs) ==
  IF rs = <<>> THEN NoRows
  ELSE LET t == Join(Tail(rs))
       IN  [rows |-> Head(rs).rows \o t.rows, calls |-> Head(rs).calls \o t.calls]

\* lines 185-191: flatten the non-repetitive children into current_data; stop
\* at the first child whose flattening is falsy
RECURSIVE InlineLoop(_, _, _)
InlineLoop(current_data, non_repetitive, j) ==
  IF j > Len(non_repetitive)
  THEN [fallback |-> FALSE, child |-> 0, data |-> current_data]
  ELSE LET child == non_repetitive[j].nodes[1]
           flattened == _flatten_element(child, "")
       IN  IF Truthy(flattened)
           THEN InlineLoop(Update(current_data, flattened.dict), non_repetitive, j + 1)
           ELSE [fallback |-> TRUE, child |-> child, data |-> current_data]

\* row_data = current_data.copy(); row_data['_sequence_num'] = idx + 1
RowData(current_data, idx) == Put(current_data, "_sequence_num", idx + 1)

\* lines 177-191: current_data of an invocation, and whether it ended in the
\* fallback of line 190
CurrentData(element, parent_data) ==
  LET groups == Groups(element)
      non_repetitive == SelectSeq(groups, LAMBDA g : Len(g.nodes) <= 1)
      c1 == IF Text(element) # "" THEN Put(parent_data, Tag(element), Text(element))
            ELSE parent_data
      c2 == PutAttrs(c1, Tag(element), element, AttrNames(element))
  IN  InlineLoop(c2, non_repetitive, 1)

RECURSIVE _extract_repetitive_data(_, _)
\* a variant in which the first repetitive group drives the recursion and the
\* later groups are processed inside each of its branches
FanOutNested(repetitive, current_data) ==
  LET first == repetitive[1].nodes
      later == Flatten([g \in 1..(Len(repetitive) - 1) |->
                 [i \in DOMAIN repetitive[g + 1].nodes |->
                    [node |-> repetitive[g + 1].nodes[i], idx |-> i - 1]]])
  IN  Join(Flatten([b \in DOMAIN first |->
        << _extract_repetitive_data(first[b], RowData(current_data, b - 1)) >>
        \o [x \in DOMAIN later |->
             _extract_repetitive_data(
               later[x].node,
               RowData(CurrentData(first[b], RowData(current_data, b - 1)).data,
                       later[x].idx))]]))

\* lines 194-198: every repetitive group, every child of it
FanOut(repetitive, current_data) ==
  Join(Flatten([g \in DOMAIN repetitive |->
         [i \in DOMAIN repetitive[g].nodes |->
            _extract_repetitive_data(repetitive[g].nodes[i],
                                     RowData(current_data, i - 1))]]))

_extract_repetitive_data(element, parent_data) ==
  LET groups == Groups(element)
      repetitive == SelectSeq(groups, LAMBDA g : Len(g.nodes) > 1)
      inl == CurrentData(element, parent_data)
      current_data == inl.data
      me == [rows |-> <<>>,
             calls |-> << [element |-> element, parent_data |-> parent_data] >>]
  IN  IF inl.fallback
      THEN Join(<< me, _extract_repetitive_data(inl.child, current_data) >>)
      ELSE IF repetitive # <<>>
      THEN Join(<< me, FanOut(repetitive, current_data) >>)
      ELSE IF current_data # parent_data
      THEN [rows |-> << Put(current_data, "_load_timestamp", now) >>, calls |-> me.calls]
      ELSE me

\* lines 209-213: the root itself, else the first descendant in document order
\* carrying the tag (0: None)
FindDataElement ==
  IF Tag(1) = data_node THEN 1
  ELSE LET hits == {i \in Nodes \ {1} : Tag(i) = data_node}
       IN  IF hits = {} THEN 0 ELSE CHOOSE i \in hits : \A j \in hits : i <= j

\* lines 223-240: collected_data of one level-1 child, with the invocations
\* of _extract_repetitive_data made for it
Level1(child) ==
  IF _has_repetitive_descendants(child)
  THEN LET p1 == IF Text(child) # "" THEN Put(EmptyDict, Tag(child), Text(child))
                 ELSE EmptyDict
           parent_data == PutAttrs(p1, Tag(child), child, AttrNames(child))
       IN  _extract_repetitive_data(child, parent_data)
  ELSE LET flattened == _flatten_element(child, "")
       IN  IF Truthy(flattened)
           THEN [rows |-> << Put(flattened.dict, "_load_timestamp", now) >>,
                 calls |-> <<>>]
           ELSE NoRows

\* lines 242-243: tables[table_name] = collected_data
StoreTable(tbls, table_name, collected_data) ==
  IF collected_data # <<>> THEN Put(tbls, table_name, collected_data) ELSE tbls

\* ------------------------------------------ type inference (version3.py)
\* A value handed to _infer_snowflake_type is None or a string; a string is a
\* sequence of runs, [ch, n] standing for n copies of the character ch.
Chars == {" ", "7", "-", "/", ".", "e", "n", "a"}

Run(c, k) == [ch |-> c, n |-> k]

NoValue == [none |-> TRUE, s |-> <<>>]

Str(runs) == [none |-> FALSE, s |-> runs]

\* len(s), s.count(c)
Length(runs) == SumSeq([i \in DOMAIN runs |-> runs[i].n])

Count(runs, c) ==
  SumSeq([i \in DOMAIN runs |-> IF runs[i].ch = c THEN runs[i].n ELSE 0])

\* str.strip(): the runs without the leading and the trailing blanks
RECURSIVE LStrip(_)
LStrip(runs) ==
  IF runs # <<>> /\ Head(runs).ch = " " THEN LStrip(Tail(runs)) ELSE runs

RECURSIVE RStrip(_)
RStrip(runs) ==
  IF runs # <<>> /\ runs[Len(runs)].ch = " "
  THEN RStrip(SubSeq(runs, 1, Len(runs) - 1)) ELSE runs

StripRuns(runs) == RStrip(LStrip(runs))

\* int(value_str) succeeds: an optional sign, then digits
IntStep(q, c) ==
  CASE q = "start" /\ c = "-" -> "sign"
    [] q \in {"start", "sign", "digits"} /\ c = "7" -> "digits"
    [] OTHER -> "dead"

\* float(value_str) succeeds: an optional sign, then digits with an optional
\* point and an optional exponent, or nan
FloatStep(q, c) ==
  CASE q = "start" /\ c = "-" -> "sign"
    [] q \in {"start", "sign", "int"} /\ c = "7" -> "int"
    [] q \in {"start", "sign"} /\ c = "." -> "dot"
    [] q = "int" /\ c = "." -> "frac"
    [] q \in {"dot", "frac"} /\ c = "7" -> "frac"
    [] q \in {"int", "frac"} /\ c = "e" -> "exp"
    [] q = "exp" /\ c = "-" -> "expsign"
    [] q \in {"exp", "expsign", "expdigits"} /\ c = "7" -> "expdigits"
    [] q \in {"start", "sign"} /\ c = "n" -> "n"
    [] q = "n" /\ c = "a" -> "na"
    [] q = "na" /\ c = "n" -> "nan"
    [] OTHER -> "dead"

\* the state after a run of n equal characters: the second copy already puts
\* the automaton where every further copy leaves it
RECURSIVE IntRun(_, _)
IntRun(q, runs) ==
  IF runs = <<>> THEN q
  ELSE LET r == Head(runs)
           q1 == IntStep(q, r.ch)
       IN  IntRun(IF r.n >= 2 THEN IntStep(q1, r.ch) ELSE q1, Tail(runs))

RECURSIVE FloatRun(_, _)
FloatRun(q, runs) ==
  IF runs = <<>> THEN q
  ELSE LET r == Head(runs)
           q1 == FloatStep(q, r.ch)
       IN  FloatRun(IF r.n >= 2 THEN FloatStep(q1, r.ch) ELSE q1, Tail(runs))

IntOk(runs) == IntRun("start", runs) = "digits"

FloatOk(runs) == FloatRun("start", runs) \in {"int", "frac", "expdigits", "nan"}

\* the four forms of a column type; VARCHAR(n) carries its n
NoType == [kind |-> "", n |-> 0]

INTEGER == [kind |-> "INTEGER", n |-> 0]

FLOAT == [kind |-> "FLOAT", n |-> 0]

DATE == [kind |-> "DATE", n |-> 0]

VARCHAR(k) == [kind |-> "VARCHAR", n |-> k]

DefaultVarchar == 500

MinVarcharLen == 100

MaxVarchar == 16777216

Max2(a, b) == IF a >= b THEN a ELSE b

Min2(a, b) == IF a <= b THEN a ELSE b

\* a variant that tries float() before int()
FirstLiteralFloatFirst(value_str) ==
  IF FloatOk(value_str) THEN FLOAT
  ELSE IF IntOk(value_str) THEN INTEGER
  ELSE NoType

\* lines 255-265: the literal the stripped string parses as, if any
FirstLiteral(value_str) ==
  IF IntOk(value_str) THEN INTEGER
  ELSE IF FloatOk(value_str) THEN FLOAT
  ELSE NoType

_infer_snowflake_type(v) ==
  IF v.none \/ v.s = <<>> THEN VARCHAR(DefaultVarchar)
  ELSE LET value_str == StripRuns(v.s)
           max_len == Max2(Length(value_str), MinVarcharLen)
       IN  IF FirstLiteral(value_str) # NoType THEN FirstLiteral(value_str)
           ELSE IF /\ Length(value_str) \in {8, 10}
                   /\ (Count(value_str, "-") = 2 \/ Count(value_str, "/") = 2)
           THEN DATE
           ELSE VARCHAR(Min2(max_len * 2, MaxVarchar))

\* ------------------------------------------------------------- documents
ChildTags == {"a", "b"}

\* the attribute an element of a tag carries, when its tag carries one
AttrOf(t) == IF t = "a" THEN "b" ELSE "id"

\* the parent of every node of the ordered trees of n nodes in document order:
\* node i hangs under node i-1 or under one of its ancestors
RECURSIVE Ancestors(_, _)
Ancestors(p, i) == IF i = 0 THEN {} ELSE {i} \cup Ancestors(p, p[i])

RECURSIVE Shapes(_)
Shapes(n) ==
  IF n = 1 THEN { <<0>> }
  ELSE UNION { { Append(p, q) : q \in Ancestors(p, n - 1) } : p \in Shapes(n - 1) }

HasChild(p, i) == \E j \in DOMAIN p : p[j] = i

MakeDoc(p, tg, attrTags, textTags) ==
  [parent |-> p,
   tag    |-> tg,
   attrib |-> [i \in DOMAIN p |->
                 IF tg[i] \in attrTags
                 THEN [k \in {AttrOf(tg[i])} |-> IF i % 2 = 0 THEN "1" ELSE "2"]
                 ELSE EmptyDict],
   text   |-> [i \in DOMAIN p |->
                 IF tg[i] \in textTags THEN (IF i % 2 = 0 THEN "x" ELSE " y ")
                 ELSE IF HasChild(p, i) THEN " " ELSE ""]]

\* a stem of d nodes with k leaves under its last node
FanShape(d, k) == [i \in 1..(d + k) |-> IF i <= d THEN i - 1 ELSE d]

\* a level-1 node with a pair of children under one tag and a single child
\* that has such a pair itself, the single child first or last
BranchShapes == { <<0, 1, 2, 3, 3, 2, 2>>, <<0, 1, 2, 2, 2, 5, 5>> }

ShapesUpTo ==
  UNION { Shapes(n) : n \in 1..MaxNodes }
    \cup { FanShape(d, k) : d \in {1, 2}, k \in 0..MaxFan }
    \cup BranchShapes

\* the root is <data>; every other node is an <a> or a <b>
Docs ==
  UNION { { MakeDoc(p, [i \in DOMAIN p |-> IF i = 1 THEN "data" ELSE tg[i]], at, tt) :
              tg \in [2..Len(p) -> ChildTags],
              at \in SUBSET ChildTags, tt \in SUBSET ChildTags } :
          p \in ShapesUpTo }

\* ---------------------------------------------------------- state machine
Programs == {"app", "version2", "version3"}

Init ==
  /\ doc \in Docs
  /\ prog \in Programs
  /\ data_node \in (IF prog = "version3" THEN {"data", "a"} ELSE {"data"})
  /\ pc = "start"
  /\ rows = <<>>
  /\ data_element = 0
  /\ todo = <<>>
  /\ tables = EmptyDict
  /\ calls = <<>>
  /\ value = NoValue /\ col_type = NoType
  /\ batches = <<>> /\ warehouse = EmptyDict /\ position = 0
  /\ initial = EmptyDict /\ last = NoCall

\* app.py parse_xml: rows = expand_node(root, {}, "")
parse_xml ==
  /\ prog = "app" /\ pc = "start"
  /\ rows' = expand_node(1, EmptyDict, "")
  /\ pc' = "done"
  /\ UNCHANGED <<doc, prog, data_node, data_element, todo, tables, calls>>
  /\ UNCHANGED <<inferVars, loadVars>>

\* version2.py parse_xml: rows = expand_node(root, {})
parse_xml_v2 ==
  /\ prog = "version2" /\ pc = "start"
  /\ rows' = expand_node_v2(1, EmptyDict)
  /\ pc' = "done"
  /\ UNCHANGED <<doc, prog, data_node, data_element, todo, tables, calls>>
  /\ UNCHANGED <<inferVars, loadVars>>

\* flatten_xml, lines 207-217: locate the data node
flatten_xml_find ==
  /\ prog = "version3" /\ pc = "start"
  /\ data_element' = FindDataElement
  /\ todo' = IF FindDataElement = 0 THEN <<>> ELSE Children(FindDataElement)
  /\ pc' = IF todo' = <<>> THEN "done" ELSE "level1"
  /\ UNCHANGED <<doc, prog, data_node, rows, tables, calls>>
  /\ UNCHANGED <<inferVars, loadVars>>

\* flatten_xml, lines 219-244: one turn of the loop over the level-1 children
flatten_xml_child ==
  /\ prog = "version3" /\ pc = "level1" /\ todo # <<>>
  /\ tables' = StoreTable(tables, Tag(Head(todo)), Level1(Head(todo)).rows)
  /\ calls' = calls \o Level1(Head(todo)).calls
  /\ todo' = Tail(todo)
  /\ pc' = IF todo' = <<>> THEN "done" ELSE "level1"
  /\ UNCHANGED <<doc, prog, data_node, rows, data_element>>
  /\ UNCHANGED <<inferVars, loadVars>>

Next == parse_xml \/ parse_xml_v2 \/ flatten_xml_find \/ flatten_xml_child

Spec == Init /\ [][Next]_vars

\* ================================================================ properties
Parent(n) == doc.parent[n]

IsLeaf(n) == Children(n) = <<>>

\* the nodes of the subtree of n, n included
Subtree(n) == {m \in Nodes : n \in Ancestors(doc.parent, m)}

\* the arguments with which expand_node is invoked on node n (app.py, line 41
\* and line 57): the path and the context of its parent
RECURSIVE PathArg(_)
PathArg(n) == IF n = 1 THEN "" ELSE Prefix(PathArg(Parent(n)), Parent(n))

RECURSIVE ContextArg(_)
ContextArg(n) ==
  IF n = 1 THEN EmptyDict
  ELSE LET q == Parent(n)
       IN  PutAttrs(ContextArg(q), Prefix(PathArg(q), q), q, AttrNames(q))

\* the same for version2.py (line 37 and line 53)
RECURSIVE ContextArgV2(_)
ContextArgV2(n) ==
  IF n = 1 THEN EmptyDict
  ELSE PutAttrsV2(ContextArgV2(Parent(n)), Parent(n), AttrNames(Parent(n)))

\* product over the tag groups of n of the sum of the row counts of the
\* expansions of the group's children
ProductOfSums(n) ==
  LET base == PutAttrs(ContextArg(n), Prefix(PathArg(n), n), n, AttrNames(n))
      gs == Groups(n)
  IN  ProdSeq([j \in DOMAIN gs |->
        SumSeq([i \in DOMAIN gs[j].nodes |->
          Len(expand_node(gs[j].nodes[i], base, Prefix(PathArg(n), n)))])])

ProductOfSumsV2(n) ==
  LET base == PutAttrsV2(ContextArgV2(n), n, AttrNames(n))
      gs == Groups(n)
  IN  ProdSeq([j \in DOMAIN gs |->
        SumSeq([i \in DOMAIN gs[j].nodes |->
          Len(expand_node_v2(gs[j].nodes[i], base))])])

HasAttrAndText(n) == IsLeaf(n) /\ AttrNames(n) # {} /\ Text(n) # ""

\* ---------------------------------------------------------------------- C1
\* C1 (the claim as stated; the code breaks it): when flatten_xml has returned
\* and the data node has n >= 2 level-1 children of one tag, each a leaf with
\* an attribute and text, the table of that tag holds n rows, one per child in
\* document order, with sequence numbers 1..n and the columns <tag> and
\* <tag>_<attr>.
C1_TableHoldsEveryChild ==
  (prog = "version3" /\ pc = "done" /\ data_element # 0) =>
    LET cs == Children(data_element)
    IN  (/\ Len(cs) >= 2
         /\ \A i \in DOMAIN cs : Tag(cs[i]) = Tag(cs[1]) /\ HasAttrAndText(cs[i]))
        => /\ Tag(cs[1]) \in DOMAIN tables
           /\ Len(tables[Tag(cs[1])]) = Len(cs)
           /\ \A i \in DOMAIN cs :
                LET row == tables[Tag(cs[1])][i]
                IN  /\ "_sequence_num" \in DOMAIN row
                    /\ row["_sequence_num"] = i
                    /\ Tag(cs[i]) \in DOMAIN row
                    /\ row[Tag(cs[i])] = Text(cs[i])
                    /\ \A k \in AttrNames(cs[i]) :
                         (Tag(cs[i]) \o "_" \o k) \in DOMAIN row

\* ---------------------------------------------------------------------- C2
\* C2: under Policy A, for every node that has children, the number of rows
\* expand_node returns is the product, over the node's tag groups, of the sum
\* of the row counts of the expansions of the group's children (app.py and
\* version2.py alike); for the root this is the number of rows parse_xml got.
C2_RowCountIsProductOfSums ==
  /\ (prog = "app" /\ pc = "done") =>
       /\ ~IsLeaf(1) => Len(rows) = ProductOfSums(1)
       /\ \A n \in Nodes : ~IsLeaf(n) =>
            Len(expand_node(n, ContextArg(n), PathArg(n))) = ProductOfSums(n)
  /\ (prog = "version2" /\ pc = "done") =>
       /\ ~IsLeaf(1) => Len(rows) = ProductOfSumsV2(1)
       /\ \A n \in Nodes : ~IsLeaf(n) =>
            Len(expand_node_v2(n, ContextArgV2(n))) = ProductOfSumsV2(n)

\* a root with two groups of 2 and of 3 leaf children has given 6 rows
C2_TwoByThreeGivesSix ==
  /\ prog = "app" /\ pc = "done"
  /\ Len(Groups(1)) = 2
  /\ Len(Groups(1)[1].nodes) = 2 /\ Len(Groups(1)[2].nodes) = 3
  /\ \A i \in DOMAIN Children(1) : IsLeaf(Children(1)[i])
  /\ Len(rows) = 6

\* ---------------------------------------------------------------------- C3
\* the tag group of c among its parent's children, and c's place in it
GroupOf(c) == GroupNodes(Children(Parent(c)), Tag(c))

Rank(c) == CHOOSE i \in DOMAIN GroupOf(c) : GroupOf(c)[i] = c

RepGroups(n) == SelectSeq(Groups(n), LAMBDA g : Len(g.nodes) > 1)

NonEmpty(n) == AttrNames(n) # {} \/ Text(n) # ""

\* C3 (the claim as stated; the code breaks it): a child of a later repetitive
\* group of a node with two repetitive groups is never recursed into at the
\* node's own level (with the node's current_data): it is reached through a
\* branch of the first group, whose row it carries forward.
C3_LaterGroupOnlyThroughFirst ==
  prog = "version3" =>
    \A i \in DOMAIN calls :
      LET c == calls[i].element
          reps == IF Parent(c) = 0 THEN <<>> ELSE RepGroups(Parent(c))
      IN  (/\ Len(reps) >= 2
           /\ Tag(c) # reps[1].tag
           /\ Len(GroupOf(c)) > 1)
          => \E j \in 1..(i - 1) :
               /\ \E b \in DOMAIN reps[1].nodes : calls[j].element = reps[1].nodes[b]
               /\ calls[i].parent_data =
                    RowData(CurrentData(calls[j].element, calls[j].parent_data).data,
                            Rank(c) - 1)

\* C3 (amended): the children of every repetitive group of a node, those of a
\* later group included, are recursed into at that node's own level: whenever
\* an invocation reaches the loop of lines 193-198, each child of each
\* repetitive group is invoked with the node's current_data and its own
\* sequence number, and no child of a repetitive group is invoked in any other
\* way (never with the row of a sibling branch); the groups are not
\* cross-multiplied (a node with two or more repetitive groups whose children
\* are all leaves yields at most one row per child of a repetitive group).
C3_EveryGroupAtItsOwnLevel ==
  prog = "version3" =>
    /\ \A i \in DOMAIN calls :
         LET c == calls[i].element
         IN  (Parent(c) # 0 /\ Len(GroupOf(c)) > 1 /\ Parent(c) # data_element) =>
               \E j \in 1..(i - 1) :
                 LET cd == CurrentData(calls[j].element, calls[j].parent_data)
                 IN  /\ calls[j].element = Parent(c)
                     /\ ~cd.fallback
                     /\ calls[i].parent_data = RowData(cd.data, Rank(c) - 1)
    /\ \A j \in DOMAIN calls :
         LET n == calls[j].element
             cd == CurrentData(n, calls[j].parent_data)
             reps == RepGroups(n)
         IN  /\ ~cd.fallback =>
                 \A g \in DOMAIN reps : \A r \in DOMAIN reps[g].nodes :
                   \E i \in (j + 1)..Len(calls) :
                     /\ calls[i].element = reps[g].nodes[r]
                     /\ calls[i].parent_data = RowData(cd.data, r - 1)
             /\ (Len(reps) >= 2 /\ \A x \in DOMAIN Children(n) : IsLeaf(Children(n)[x])) =>
                 Len(_extract_repetitive_data(n, calls[j].parent_data).rows)
                   <= SumSeq([g \in DOMAIN reps |-> Len(reps[g].nodes)])

\* flatten_xml has returned; some node had two repetitive groups, a child of
\* the first with data of its own, and the first child of the second group was
\* invoked with the node's current_data and sequence number 1
C3_SecondGroupVisitedDirectly ==
  /\ prog = "version3" /\ pc = "done"
  /\ \E j \in DOMAIN calls :
       LET n == calls[j].element
           cd == CurrentData(n, calls[j].parent_data)
           reps == RepGroups(n)
       IN  /\ Len(reps) >= 2
           /\ ~cd.fallback
           /\ \E b \in DOMAIN reps[1].nodes : NonEmpty(reps[1].nodes[b])
           /\ \E i \in DOMAIN calls :
                /\ calls[i].element = reps[2].nodes[1]
                /\ calls[i].parent_data = RowData(cd.data, 0)

\* ---------------------------------------------------------------------- C4
\* the tags from node s down to node n, joined by underscores
RECURSIVE ChainName(_, _)
ChainName(s, n) ==
  IF n = s THEN Tag(n) ELSE ChainName(s, Parent(n)) \o "_" \o Tag(n)

Level1Children == IF data_element = 0 THEN <<>> ELSE Children(data_element)

\* the level-1 children flatten_xml hands to _flatten_element (line 237)
FlattenedLevel1 ==
  {Level1Children[i] : i \in {x \in DOMAIN Level1Children :
                                ~_has_repetitive_descendants(Level1Children[x])}}

\* Policy A names the column of attribute k of node n by the tag chain from
\* the root; _extract_repetitive_data names it by the node's own tag
PolicyANaming ==
  (prog = "app" /\ pc = "done") =>
    \A n \in Nodes : \A k \in AttrNames(n) :
      LET col == ChainName(1, n) \o "_" \o k
          out == expand_node(n, ContextArg(n), PathArg(n))
      IN  /\ \A r \in DOMAIN out : col \in DOMAIN out[r]
          /\ \E r \in DOMAIN rows : col \in DOMAIN rows[r]

ExtractNaming ==
  prog = "version3" =>
    \A i \in DOMAIN calls : \A k \in AttrNames(calls[i].element) :
      LET e == calls[i].element
          col == Tag(e) \o "_" \o k
          out == _extract_repetitive_data(e, calls[i].parent_data).rows
      IN  /\ col \in DOMAIN CurrentData(e, calls[i].parent_data).data
          /\ \A r \in DOMAIN out : col \in DOMAIN out[r]

\* C4 (the claim as stated; the code breaks it): Policy A writes attribute k
\* of a node to <tag chain from the root>_k, and Policy B, in
\* _extract_repetitive_data and in _flatten_element alike, to <own tag>_k at
\* every nesting depth.
C4_OwnTagAtEveryDepth ==
  /\ PolicyANaming
  /\ ExtractNaming
  /\ (prog = "version3" /\ pc = "done") =>
       \A s \in FlattenedLevel1 : \A n \in Subtree(s) : \A k \in AttrNames(n) :
         (Tag(n) \o "_" \o k) \in DOMAIN _flatten_element(s, "").dict

\* C4 (amended): Policy A writes attribute k of a node to <tag chain from the
\* root>_k; _extract_repetitive_data writes the attributes of the element it
\* visits to <own tag>_k; _flatten_element writes attribute k of a node to
\* <tag chain from the element the inline flattening started at down to the
\* node>_k, which is <own tag>_k for the starting element alone.
C4_ColumnNaming ==
  /\ PolicyANaming
  /\ ExtractNaming
  /\ (prog = "version3" /\ pc = "done") =>
       \A s \in Nodes : ~_flatten_element(s, "").isNone =>
         \A n \in Subtree(s) : \A k \in AttrNames(n) :
           (ChainName(s, n) \o "_" \o k) \in DOMAIN _flatten_element(s, "").dict

\* flatten_xml has stored the row of a flattened level-1 child in which the
\* attribute of a node two or more levels below it sits under the chained
\* name and not under the node's own tag
C4_NestedAttributeChained ==
  /\ prog = "version3" /\ pc = "done"
  /\ \E s \in FlattenedLevel1 : \E n \in Subtree(s) : \E k \in AttrNames(n) :
       /\ n # s /\ Parent(n) # s
       /\ Tag(s) \in DOMAIN tables
       /\ (ChainName(s, n) \o "_" \o k) \in DOMAIN tables[Tag(s)][1]
       /\ (Tag(n) \o "_" \o k) \notin DOMAIN tables[Tag(s)][1]

\* ---------------------------------------------------------------------- C5
\* no node has two children with the same tag
NoRepeatedTag ==
  \A n \in Nodes : \A g \in DOMAIN Groups(n) : Len(Groups(n)[g].nodes) = 1

\* the subtree of c holds an attribute or non-empty text
HasData(c) == \E n \in Subtree(c) : NonEmpty(n)

\* C5: for a document in which no node has two children with the same tag,
\* Policy A returns exactly one row, and flatten_xml returns exactly one row
\* for each level-1 child whose subtree holds an attribute or non-empty text
\* and no table for a level-1 child that holds none.
C5_OneRowWithoutRepetition ==
  (pc = "done" /\ NoRepeatedTag) =>
    /\ prog \in {"app", "version2"} => Len(rows) = 1
    /\ (prog = "version3" /\ data_element # 0) =>
         /\ \A i \in DOMAIN Level1Children :
              LET c == Level1Children[i]
              IN  IF HasData(c)
                  THEN Tag(c) \in DOMAIN tables /\ Len(tables[Tag(c)]) = 1
                  ELSE Tag(c) \notin DOMAIN tables
         /\ \A t \in DOMAIN tables :
              \E i \in DOMAIN Level1Children : Tag(Level1Children[i]) = t

\* flatten_xml has returned for such a document with two level-1 children:
\* one table of one row for the child with data, none for the empty child
C5_OneTableOneRow ==
  /\ prog = "version3" /\ pc = "done" /\ NoRepeatedTag
  /\ Len(Level1Children) = 2
  /\ \E i, j \in DOMAIN Level1Children :
       /\ HasData(Level1Children[i]) /\ ~IsLeaf(Level1Children[i])
       /\ Len(tables[Tag(Level1Children[i])]) = 1
       /\ ~HasData(Level1Children[j])
       /\ Tag(Level1Children[j]) \notin DOMAIN tables

\* ---------------------------------------------------------------------- C9
\* the merge step of expand_node on a node n that has children: its base, the
\* rows it picks from each group (one combo per output row), its output
BaseA(n) == PutAttrs(ContextArg(n), Prefix(PathArg(n), n), n, AttrNames(n))

CombosA(n) ==
  LET gs == Groups(n)
  IN  Product([j \in DOMAIN gs |->
                 ExpandGroup(gs[j].nodes, BaseA(n), Prefix(PathArg(n), n))])

OutA(n) == IF n = 1 THEN rows ELSE expand_node(n, ContextArg(n), PathArg(n))

BaseV2(n) == PutAttrsV2(ContextArgV2(n), n, AttrNames(n))

CombosV2(n) ==
  LET gs == Groups(n)
  IN  Product([j \in DOMAIN gs |-> ExpandGroupV2(gs[j].nodes, BaseV2(n))])

OutV2(n) == IF n = 1 THEN rows ELSE expand_node_v2(n, ContextArgV2(n))

MaxOf(S) == CHOOSE x \in S : \A y \in S : y <= x

\* the group's row wrote column k: it is not the value inherited from base
Wrote(base, row, k) == k \in DOMAIN row /\ (k \notin DOMAIN base \/ row[k] # base[k])

\* in every output row a value written by one group's subtree is still there
NoSiblingOverwrite(base, combos, out) ==
  \A c \in DOMAIN combos : \A j \in DOMAIN combos[c] : \A k \in DOMAIN combos[c][j] :
    Wrote(base, combos[c][j], k) => out[c][k] = combos[c][j][k]

\* in every output row each column has the value of the last group's row that
\* carries it (the base's value when none does)
LastGroupWins(base, combos, out) ==
  /\ Len(out) = Len(combos)
  /\ \A c \in DOMAIN combos : \A k \in DOMAIN out[c] :
       LET holders == {j \in DOMAIN combos[c] : k \in DOMAIN combos[c][j]}
       IN  IF holders = {} THEN k \in DOMAIN base /\ out[c][k] = base[k]
           ELSE out[c][k] = combos[c][MaxOf(holders)][k]

\* C9 (the claim as stated; the code breaks it): within one output row of
\* Policy A a value written along one expansion path is never replaced by the
\* merge of a sibling tag group's row, not even by a sibling row that merely
\* carries the inherited parent context value of that column.
C9_NoSiblingOverwrite ==
  /\ (prog = "app" /\ pc = "done") =>
       \A n \in Nodes : ~IsLeaf(n) => NoSiblingOverwrite(BaseA(n), CombosA(n), OutA(n))
  /\ (prog = "version2" /\ pc = "done") =>
       \A n \in Nodes : ~IsLeaf(n) => NoSiblingOverwrite(BaseV2(n), CombosV2(n), OutV2(n))

\* C9 (amended): the merge is last-write-wins in tag-group order: within one
\* output row a column has the value of the row of the last tag group (in
\* first-seen order) whose row carries that column, so a value written along
\* one expansion path is replaced by a descendant's merge or by the row of a
\* later sibling group that carries the same column name, also when that row
\* merely carries the inherited parent context value; an earlier sibling
\* group never replaces it.
C9_LastGroupWins ==
  /\ (prog = "app" /\ pc = "done") =>
       \A n \in Nodes : ~IsLeaf(n) => LastGroupWins(BaseA(n), CombosA(n), OutA(n))
  /\ (prog = "version2" /\ pc = "done") =>
       \A n \in Nodes : ~IsLeaf(n) => LastGroupWins(BaseV2(n), CombosV2(n), OutV2(n))

\* parse_xml of app.py has returned a row in which the value one group's
\* subtree wrote to a column was replaced by the inherited context value that
\* a later sibling group's row carried
C9_InheritedValueReplaces ==
  /\ prog = "app" /\ pc = "done"
  /\ \E n \in Nodes :
       /\ ~IsLeaf(n)
       /\ LET base == BaseA(n)
              combos == CombosA(n)
              out == OutA(n)
          IN  \E c \in DOMAIN combos : \E j, i \in DOMAIN combos[c] : \E k \in DOMAIN base :
                /\ j < i
                /\ combos[c][j][k] # base[k]
                /\ combos[c][i][k] = base[k]
                /\ out[c][k] = base[k]

\* --------------------------------------------------------------------- C10
\* some node of the subtree of n has two children with the same tag
HasRepetition(n) ==
  \E m \in Subtree(n) : \E g \in DOMAIN Groups(m) : Len(Groups(m)[g].nodes) > 1

\* C10 (the claim as stated; the code breaks it): _flatten_element returns
\* the not-flattenable signal exactly for an element with a repeated tag in
\* its subtree, and a single child is handed to recursive extraction (line
\* 190) only when its flattening returned that signal, never when it
\* flattened to an empty result.
C10_FallbackOnlyOnSignal ==
  prog = "version3" =>
    /\ \A n \in Nodes : _flatten_element(n, "").isNone <=> HasRepetition(n)
    /\ \A i \in DOMAIN calls :
         LET c == calls[i].element
         IN  (Parent(c) # 0 /\ Len(GroupOf(c)) = 1) => _flatten_element(c, "").isNone

\* ------------------------------------------------- type inference: the run
FillCounts == {5, 6, 7, 8, 97, 98, 99, 147, 148, 8388606, 8388607}

Prefixes == UNION { [1..k -> Chars] : k \in 0..MaxPrefix }

Suffixes == UNION { [1..k -> Chars] : k \in 0..1 }

Singles(cs) == [i \in DOMAIN cs |-> Run(cs[i], 1)]

\* None, and the strings prefix + fill + suffix
Values ==
  {NoValue}
    \cup { Str(Singles(pre) \o Singles(suf)) : pre \in Prefixes, suf \in Suffixes }
    \cup { Str(Singles(pre) \o << Run(c, k) >> \o Singles(suf)) :
             pre \in Prefixes, suf \in Suffixes, c \in {"7", "a"}, k \in FillCounts }

FixedDoc ==
  [parent |-> <<0>>, tag |-> <<"data">>, attrib |-> << EmptyDict >>, text |-> <<"">>]

InitInfer ==
  /\ prog = "infer" /\ pc = "start"
  /\ value \in Values
  /\ col_type = NoType
  /\ doc = FixedDoc /\ data_node = "data" /\ rows = <<>> /\ data_element = 0
  /\ todo = <<>> /\ tables = EmptyDict /\ calls = <<>>
  /\ batches = <<>> /\ warehouse = EmptyDict /\ position = 0
  /\ initial = EmptyDict /\ last = NoCall

\* col_type = self._infer_snowflake_type(col_value)
infer_type ==
  /\ prog = "infer" /\ pc = "start"
  /\ col_type' = _infer_snowflake_type(value)
  /\ pc' = "done"
  /\ UNCHANGED <<prog, value, flatVars, loadVars>>

NextInfer == infer_type

SpecInfer == InitInfer /\ [][NextInfer]_vars

\* ---------------------------------------------------------------------- C8
IsEmptyOrAbsent(v) == v.none \/ v.s = <<>>

DateShaped(runs) ==
  Length(runs) \in {8, 10} /\ (Count(runs, "-") = 2 \/ Count(runs, "/") = 2)

TextType(len) == VARCHAR(Min2(Max2(len, 100) * 2, 16777216))

\* C8 (the claim as stated, the length being that of the value; the code
\* breaks it): empty or absent gives VARCHAR(500), else an integer literal
\* INTEGER, else a decimal literal FLOAT, else a value of length 8 or 10 with
\* two '-' or two '/' DATE, else VARCHAR(min(max(length, 100) * 2, 16777216)).
C8_ClassifiedByValueLength ==
  (prog = "infer" /\ pc = "done") =>
    col_type =
      IF IsEmptyOrAbsent(value) THEN VARCHAR(500)
      ELSE IF IntOk(StripRuns(value.s)) THEN INTEGER
      ELSE IF FloatOk(StripRuns(value.s)) THEN FLOAT
      ELSE IF DateShaped(value.s) THEN DATE
      ELSE TextType(Length(value.s))

\* C8 (amended): empty or absent gives VARCHAR(500); every later test reads
\* the value with its surrounding whitespace trimmed: an integer literal
\* gives INTEGER, else anything float() accepts gives FLOAT, else a trimmed
\* length of 8 or 10 with exactly two '-' or exactly two '/' gives DATE, else
\* VARCHAR(min(max(trimmed length, 100) * 2, 16777216)); so a whitespace-only
\* value gives VARCHAR(200), a trimmed length of 150 gives VARCHAR(300), one
\* below 100 VARCHAR(200), and the result is always one of the four forms.
C8_ClassifiedByTrimmedValue ==
  (prog = "infer" /\ pc = "done") =>
    LET t == StripRuns(value.s)
        literal == IntOk(t) \/ FloatOk(t)
    IN  /\ col_type.kind \in {"INTEGER", "FLOAT", "DATE", "VARCHAR"}
        /\ col_type.kind = "VARCHAR" <=> col_type.n > 0
        /\ IsEmptyOrAbsent(value) => col_type = VARCHAR(500)
        /\ ~IsEmptyOrAbsent(value) =>
             /\ IntOk(t) => col_type = INTEGER
             /\ (~IntOk(t) /\ FloatOk(t)) => col_type = FLOAT
             /\ (~literal /\ DateShaped(t)) => col_type = DATE
             /\ (~literal /\ ~DateShaped(t)) => col_type = TextType(Length(t))
             /\ (~literal /\ Length(t) = 150) => col_type = VARCHAR(300)
             /\ (~literal /\ ~DateShaped(t) /\ Length(t) < 100) => col_type = VARCHAR(200)
             /\ t = <<>> => col_type = VARCHAR(200)

\* a value with a leading blank whose trimmed length is 10 was typed DATE
C8_PaddedDate ==
  /\ prog = "infer" /\ pc = "done"
  /\ ~value.none /\ value.s # <<>> /\ Head(value.s).ch = " "
  /\ Length(StripRuns(value.s)) = 10
  /\ Length(value.s) = 11
  /\ col_type = DATE

\* ------------------------------------------------- the warehouse: its names
TableNames == {"item", "note"}

\* the keys a record can have, in the order a record holds them
ColumnOrder == <<"id", "a-b", "a_b">>

\* f"{self.table_prefix}{table_name}".upper(), with table_prefix ""
full_table_name(table_name) ==
  CASE table_name = "item" -> "ITEM"
    [] table_name = "note" -> "NOTE"

\* col_name.replace('-', '_').replace('.', '_').upper()
safe_col_name(col_name) ==
  CASE col_name = "id" -> "ID"
    [] col_name = "a-b" -> "A_B"
    [] col_name = "a_b" -> "A_B"

Digit == Str(<< Run("7", 1) >>)

Word == Str(<< Run("a", 1) >>)

\* str(float('nan')): what astype(str) makes of a key a record does not have
NaN == Str(<< Run("n", 1), Run("a", 1), Run("n", 1) >>)

ValueOf(col_name) == IF col_name = "id" THEN Digit ELSE Word

Range(seq) == { seq[i] : i \in DOMAIN seq }

Distinct(seq) == \A i, j \in DOMAIN seq : seq[i] = seq[j] => i = j

InRecord(record, col_name) == col_name \in DOMAIN record

\* record.keys()
Keys(record) == SelectSeq(ColumnOrder, LAMBDA c : InRecord(record, c))

Records == { [c \in ks |-> ValueOf(c)] : ks \in (SUBSET Range(ColumnOrder)) \ {{}} }

\* pd.DataFrame(records).columns: the keys in the order of first appearance
RECURSIVE Columns(_)
Columns(records) ==
  IF records = <<>> THEN <<>>
  ELSE LET before == Columns(SubSeq(records, 1, Len(records) - 1))
       IN  before \o SelectSeq(Keys(records[Len(records)]),
                               LAMBDA c : c \notin Range(before))

\* df.columns after the renaming
df_columns(records) ==
  [i \in DOMAIN Columns(records) |-> safe_col_name(Columns(records)[i])]

\* df.values.tolist() after astype(str)
df_values(records) ==
  [r \in DOMAIN records |->
     [i \in DOMAIN Columns(records) |->
        IF InRecord(records[r], Columns(records)[i])
        THEN records[r][Columns(records)[i]] ELSE NaN]]

\* -------------------------------------------- the warehouse: its statements
ColumnNamesOf(table) == { table.columns[i].name : i \in DOMAIN table.columns }

\* the outcome of a call: "ok", "fault" (the connection or the warehouse
\* failed the statement), "error" (the warehouse rejected the statement)
Result(wh, outcome) == [warehouse |-> wh, outcome |-> outcome]

\* _create_table_if_not_exists: nothing when the table exists, else CREATE
\* TABLE with the sample record's columns and their inferred types, which the
\* warehouse rejects when two columns have one name
_create_table_if_not_exists(wh, table_name, sample_record, fault) ==
  LET keys == Keys(sample_record)
      columns == [i \in DOMAIN keys |->
                    [name |-> safe_col_name(keys[i]),
                     type |-> _infer_snowflake_type(sample_record[keys[i]])]]
      names == [i \in DOMAIN keys |-> columns[i].name]
  IN  IF fault THEN Result(wh, "fault")
      ELSE IF full_table_name(table_name) \in DOMAIN wh THEN Result(wh, "ok")
      ELSE IF ~Distinct(names) THEN Result(wh, "error")
      ELSE Result(Put(wh, full_table_name(table_name),
                      [columns |-> columns, rows |-> <<>>]), "ok")

\* for col in df.columns: if col not in existing_cols: ALTER TABLE .. ADD
\* COLUMN col VARCHAR(500); a column added stays added (DDL commits itself),
\* and the warehouse rejects adding a column the table has
RECURSIVE AddColumns(_, _, _, _)
AddColumns(table, cols, existing_cols, fault) ==
  IF cols = <<>> THEN [table |-> table, outcome |-> "ok"]
  ELSE IF Head(cols) \in existing_cols
  THEN AddColumns(table, Tail(cols), existing_cols, fault)
  ELSE IF fault THEN [table |-> table, outcome |-> "fault"]
  ELSE IF Head(cols) \in ColumnNamesOf(table)
  THEN [table |-> table, outcome |-> "error"]
  ELSE AddColumns([table EXCEPT !.columns =
                     Append(@, [name |-> Head(cols), type |-> VARCHAR(DefaultVarchar)])],
                  Tail(cols), existing_cols, fault)

\* the row INSERT INTO t (cols) VALUES (vals) stores
StoredRow(cols, vals) ==
  [c \in Range(cols) |-> vals[CHOOSE i \in DOMAIN cols : cols[i] = c]]

executemanyPartial(table, cols, values, ok) ==
  IF ok
  THEN [table EXCEPT !.rows = @ \o [r \in DOMAIN values |-> StoredRow(cols, values[r])]]
  ELSE [table EXCEPT !.rows = Append(@, StoredRow(cols, values[1]))]

\* cursor.executemany(insert_stmt, rows); commit(): all the rows, or on a
\* failure (and the rollback) none
executemany(table, cols, values, ok) ==
  IF ok
  THEN [table EXCEPT !.rows = @ \o [r \in DOMAIN values |-> StoredRow(cols, values[r])]]
  ELSE table

\* the four faults of a load: none, at the SELECT, at the first ALTER, at the INSERT
Faults == {"none", "select", "alter", "insert"}

_load_data_to_table(wh, table_name, records, fault) ==
  IF records = <<>> THEN Result(wh, "ok")
  ELSE
    LET full == full_table_name(table_name)
        cols == df_columns(records)
    IN  IF fault = "select" THEN Result(wh, "fault")
        ELSE IF full \notin DOMAIN wh THEN Result(wh, "error")
        ELSE
          LET existing_cols == ColumnNamesOf(wh[full])
              widened == AddColumns(wh[full], cols, existing_cols, fault = "alter")
              ok == fault # "insert" /\ Distinct(cols)
          IN  IF widened.outcome # "ok"
              THEN Result(Put(wh, full, widened.table), widened.outcome)
              ELSE Result(Put(wh, full,
                              executemany(widened.table, cols, df_values(records), ok)),
                          IF ok THEN "ok"
                          ELSE IF fault = "insert" THEN "fault" ELSE "error")

\* ------------------------------------------------------ process_xml_file
Batch(table_name, records) == [table_name |-> table_name, records |-> records]

ItemBatches == UNION { [1..k -> Records] : k \in 1..MaxRecords }

NoteBatches == { << r >> : r \in Records }

\* what flatten_xml can return: no table, one, or two in either order
BatchLists ==
  {<<>>}
    \cup { << Batch("item", b) >> : b \in ItemBatches }
    \cup { << Batch("note", n) >> : n \in NoteBatches }
    \cup { << Batch("item", b), Batch("note", n) >> : b \in ItemBatches, n \in NoteBatches }
    \cup { << Batch("note", n), Batch("item", b) >> : b \in ItemBatches, n \in NoteBatches }

\* the warehouse before the run: empty, or with the table ITEM of an earlier
\* run that loaded one record
Warehouses ==
  { EmptyDict,
    Put(EmptyDict, "ITEM",
        [columns |-> << [name |-> "ID", type |-> INTEGER] >>,
         rows |-> << [c \in {"ID"} |-> Digit] >>]),
    Put(EmptyDict, "ITEM",
        [columns |-> << [name |-> "ID", type |-> INTEGER],
                        [name |-> "A_B", type |-> VARCHAR(200)] >>,
         rows |-> << [c \in {"ID", "A_B"} |-> IF c = "ID" THEN Digit ELSE Word] >>]) }

\* the first item from i on whose records are not empty (if records:)
RECURSIVE Scheduled(_, _)
Scheduled(items, i) ==
  IF i > Len(items) THEN i
  ELSE IF items[i].records # <<>> THEN i
  ELSE Scheduled(items, i + 1)

InitLoad ==
  /\ prog = "load" /\ pc = "start"
  /\ batches \in BatchLists
  /\ warehouse \in Warehouses
  /\ initial = warehouse
  /\ position = 0 /\ last = NoCall
  /\ value = NoValue /\ col_type = NoType
  /\ doc = FixedDoc /\ data_node = "data" /\ rows = <<>> /\ data_element = 0
  /\ todo = <<>> /\ tables = EmptyDict /\ calls = <<>>

\* process_xml_file: tables = self.flatten_xml(root), and the loop begins
process_xml_file ==
  /\ prog = "load" /\ pc = "start"
  /\ position' = Scheduled(batches, 1)
  /\ pc' = IF position' > Len(batches) THEN "done" ELSE "create"
  /\ UNCHANGED <<prog, batches, warehouse, initial, last, flatVars, inferVars>>

\* self._create_table_if_not_exists(table_name, records[0]); it re-raises
create_table ==
  /\ prog = "load" /\ pc = "create"
  /\ \E fault \in BOOLEAN :
       LET b == batches[position]
           r == _create_table_if_not_exists(warehouse, b.table_name, b.records[1], fault)
       IN  /\ warehouse' = r.warehouse
           /\ last' = [op |-> "create", table |-> full_table_name(b.table_name),
                       outcome |-> r.outcome]
           /\ pc' = IF r.outcome = "ok" THEN "load" ELSE "failed"
  /\ UNCHANGED <<prog, batches, position, initial, flatVars, inferVars>>

\* self._load_data_to_table(table_name, records); it re-raises, and the loop
\* goes on to the next item only when it returned
load_data ==
  /\ prog = "load" /\ pc = "load"
  /\ \E fault \in Faults :
       LET b == batches[position]
           r == _load_data_to_table(warehouse, b.table_name, b.records, fault)
       IN  /\ warehouse' = r.warehouse
           /\ last' = [op |-> "load", table |-> full_table_name(b.table_name),
                       outcome |-> r.outcome]
           /\ position' = IF r.outcome = "ok"
                          THEN Scheduled(batches, position + 1) ELSE position
           /\ pc' = IF r.outcome # "ok" THEN "failed"
                    ELSE IF position' > Len(batches) THEN "done" ELSE "create"
  /\ UNCHANGED <<prog, batches, initial, flatVars, inferVars>>

NextLoad == process_xml_file \/ create_table \/ load_data

SpecLoad == InitLoad /\ [][NextLoad]_vars

\* ---------------------------------------------------------------------- C6
TableOf(j) == full_table_name(batches[j].table_name)

BatchRows(j) ==
  [r \in DOMAIN batches[j].records |->
     StoredRow(df_columns(batches[j].records), df_values(batches[j].records)[r])]

InitialRows(t) == IF t \in DOMAIN initial THEN initial[t].rows ELSE <<>>

\* the table of item j holds what it held before the run and then the batch
Loaded(j) ==
  /\ TableOf(j) \in DOMAIN warehouse
  /\ warehouse[TableOf(j)].rows = InitialRows(TableOf(j)) \o BatchRows(j)

\* no row of item j is in the warehouse
NotStored(j) ==
  TableOf(j) \in DOMAIN warehouse =>
    warehouse[TableOf(j)].rows = InitialRows(TableOf(j))

\* the table of item j is as the run found it: absent, or the same
Untouched(j) ==
  IF TableOf(j) \in DOMAIN initial
  THEN TableOf(j) \in DOMAIN warehouse /\ warehouse[TableOf(j)] = initial[TableOf(j)]
  ELSE TableOf(j) \notin DOMAIN warehouse

Failed == prog = "load" /\ pc = "failed"

\* C6 (the claim as stated; the code breaks it): when creation, widening or
\* insert fails for one table, the tables loaded earlier stay intact, no row
\* of the failing batch is stored, and the remaining tables of the same
\* flatten_xml result are still created and loaded.
C6_RemainingTablesStillLoaded ==
  Failed =>
    /\ \A j \in 1..(position - 1) : Loaded(j)
    /\ NotStored(position)
    /\ \A j \in (position + 1)..Len(batches) : Loaded(j)

\* C6 (amended): when creation, widening or insert fails for one table, the
\* tables loaded earlier stay intact and no row of the failing batch is
\* stored, but the failure is re-raised out of the loop: every table after
\* the failing one is left as the run found it, neither created nor loaded;
\* only a run without a failure loads every table.
C6_FailureEndsTheRun ==
  /\ Failed =>
       /\ position \in 1..Len(batches)
       /\ last.outcome # "ok" /\ last.table = TableOf(position)
       /\ \A j \in 1..(position - 1) : Loaded(j)
       /\ NotStored(position)
       /\ \A j \in (position + 1)..Len(batches) : Untouched(j)
  /\ (prog = "load" /\ pc = "done") => \A j \in 1..Len(batches) : Loaded(j)

\* the load of the first of two tables failed after the table was created,
\* and the second table is not in the warehouse
C6_SecondTableNeverCreated ==
  /\ Failed /\ last.op = "load"
  /\ position = 1 /\ Len(batches) = 2
  /\ TableOf(1) \notin DOMAIN initial /\ TableOf(1) \in DOMAIN warehouse
  /\ TableOf(2) \notin DOMAIN warehouse

\* ---------------------------------------------------------------------- C7
\* the item of the last call
LastItem == CHOOSE j \in DOMAIN batches : TableOf(j) = last.table

\* the last call loaded a batch into a table that existed before the run,
\* and neither the connection nor the warehouse failed on it
LoadedIntoExisting ==
  /\ prog = "load" /\ last.op = "load" /\ last.outcome # "fault"
  /\ last.table \in DOMAIN initial

IsPrefix(s, t) == Len(s) <= Len(t) /\ SubSeq(t, 1, Len(s)) = s

\* the columns and rows the table had are as they were
NonDestructive ==
  /\ IsPrefix(initial[last.table].columns, warehouse[last.table].columns)
  /\ IsPrefix(initial[last.table].rows, warehouse[last.table].rows)
  /\ \A i \in DOMAIN warehouse[last.table].columns :
       i > Len(initial[last.table].columns) =>
         warehouse[last.table].columns[i].type = VARCHAR(500)

\* C7 (the claim as stated; the code breaks it): a batch loaded into an
\* existing table is loaded successfully, the columns the table lacks being
\* added first with the default text type; no existing column is removed or
\* retyped, no row already present changes, and afterwards every normalized
\* column of the batch exists in the table.
C7_WideningLoadSucceeds ==
  LoadedIntoExisting =>
    /\ last.outcome = "ok"
    /\ NonDestructive
    /\ Range(df_columns(batches[LastItem].records))
         \subseteq ColumnNamesOf(warehouse[last.table])
    /\ Loaded(LastItem)

\* what does hold of such a load: it is non-destructive, a successful one
\* leaves every column of the batch in the table, and the warehouse rejects
\* it exactly when two keys of the batch have one normalized name
WideningWhenNamesDistinct ==
  LoadedIntoExisting =>
    /\ NonDestructive
    /\ last.outcome = "ok" =>
         /\ Range(df_columns(batches[LastItem].records))
              \subseteq ColumnNamesOf(warehouse[last.table])
         /\ Loaded(LastItem)
    /\ last.outcome = "error" <=> ~Distinct(df_columns(batches[LastItem].records))

\* --------------------------------------------------------------------- C11
CallsOf(c) == { i \in DOMAIN calls : calls[i].element = c }

\* C11 (the claim as stated; the code breaks it): whenever
\* _extract_repetitive_data visits a node with one or more repeating groups,
\* every child of every repeating group is recursed into exactly once, in
\* document order within its group, with the node's current_data stamped with
\* _sequence_num equal to its 1-based rank in the group, also when one of the
\* node's non-repeating children was handed to recursive extraction.
C11_EveryRepeatingChildVisited ==
  prog = "version3" =>
    \A j \in DOMAIN calls :
      LET n == calls[j].element
          cd == CurrentData(n, calls[j].parent_data)
          reps == RepGroups(n)
      IN  \A g \in DOMAIN reps : \A r \in DOMAIN reps[g].nodes :
            /\ Cardinality(CallsOf(reps[g].nodes[r])) = 1
            /\ \A i \in CallsOf(reps[g].nodes[r]) :
                 /\ i > j
                 /\ calls[i].parent_data = RowData(cd.data, r - 1)
                 /\ \A q \in 1..(r - 1) : \A h \in CallsOf(reps[g].nodes[q]) : h < i

\* what does hold: an invocation that did not hand a single child to
\* recursive extraction visits every child of every repeating group once, in
\* order and with its rank; one that did (line 190) returns at line 191 and
\* visits none of them
FanOutUnlessFallback ==
  prog = "version3" =>
    \A j \in DOMAIN calls :
      LET n == calls[j].element
          cd == CurrentData(n, calls[j].parent_data)
          reps == RepGroups(n)
      IN  \A g \in DOMAIN reps : \A r \in DOMAIN reps[g].nodes :
            IF cd.fallback THEN CallsOf(reps[g].nodes[r]) = {}
            ELSE /\ Cardinality(CallsOf(reps[g].nodes[r])) = 1
                 /\ \A i \in CallsOf(reps[g].nodes[r]) :
                      /\ i > j
                      /\ calls[i].parent_data = RowData(cd.data, r - 1)
                      /\ \A q \in 1..(r - 1) : \A h \in CallsOf(reps[g].nodes[q]) : h < i

\* flatten_xml has returned; an invocation handed a single child with a
\* repeated tag below it to recursive extraction, and the node's own
\* repeating group was never visited
SignalledFallbackSkipsGroup ==
  /\ prog = "version3" /\ pc = "done"
  /\ \E j \in DOMAIN calls :
       LET cd == CurrentData(calls[j].element, calls[j].parent_data)
           reps == RepGroups(calls[j].element)
       IN  /\ cd.fallback
           /\ _flatten_element(cd.child, "").isNone
           /\ reps # <<>>
           /\ \A r \in DOMAIN reps[1].nodes : CallsOf(reps[1].nodes[r]) = {}

====
